---- MODULE Spec2Model ----
(***************************************************************************)
(* Model of the social-graph generator of DB_StarterPack/                  *)
(* mongo_social_setup.js (the streamed version, lines 1-391): population   *)
(* partitioning and user generation, degree planning, the friend-edge and  *)
(* follow-edge builders, the interaction emitter and the batched inserts.  *)
(*                                                                         *)
(* The script is one sequential pass.  Every call of rand() is modelled as *)
(* a nondeterministic draw from the values the call can return (the        *)
(* determinism specification at the end uses the real recurrence           *)
(* instead).  Configuration constants that the script sets to thousands    *)
(* are scaled to the bounds below.                                         *)
(***************************************************************************)
EXTENDS Integers, Sequences, FiniteSets

\* ------------------------------------------------------------------ bounds
\* N_USERS ranges over 1..MaxUsers in the user-generation specification.
MaxUsers == 5
\* N_USERS ranges over 1..MaxGraphUsers in the planner and graph specifications.
MaxGraphUsers == 3
\* randint(12,22) of the script, scaled: nCommunities is drawn from
\* MinCommunities..MaxCommunities.
MinCommunities == 1
MaxCommunities == 2
\* BATCH_SIZE of the script (5000), scaled.
BATCH_SIZE == 2
\* The number of candidates pickNeighbor samples (6 in the script), scaled.
SAMPLE_SIZE == 1
\* The retry multiplier of the friend loop (line 282).
FRIEND_RETRY == 15
\* FOLLOW_MIN and FOLLOW_MAX of the script (2 and 6), scaled.
FOLLOW_MIN == 1
FOLLOW_MAX == 2
\* The retry multiplier of the follow loop (line 320).
FOLLOW_RETRY == 8
\* The sizing loop taken by itself: the populations and community counts it is
\* tried with.
MaxSizingUsers == 10
MaxSizingCommunities == 3
\* pickNeighbor taken by itself: the population, the degree counters and the
\* sample size (the 6 of line 264) it is tried with.
MaxPickUsers == 4
MaxPickDegree == 1
PickSampleSize == 2
\* N_INTERACTIONS of the script (60000), scaled.
N_INTERACTIONS == 3
\* The wall clock advances at most this far while the interactions are emitted.
MaxClock == 1
\* TARGET_EDGE_MIN, TARGET_EDGE_MAX, AVG_DEGREE and FRIEND_DEGREE_VARIANCE of the
\* script (112500, 187500, 10, 6), scaled.
TARGET_EDGE_MIN == 1
TARGET_EDGE_MAX == 3
AVG_DEGREE == 3
FRIEND_DEGREE_VARIANCE == 3

\* The cities a user can be placed in (the script lists sixteen).
Cities == {"Delhi", "Mumbai"}

\* What insertMany can do with a batch: return, or throw (duplicate key,
\* connectivity).
InsertOutcomes == {"ok", "error"}

\* ----------------------------------------------------------------- helpers
Max(a, b) == IF a >= b THEN a ELSE b

Min(a, b) == IF a <= b THEN a ELSE b

RECURSIVE SumSeq(_)
SumSeq(s) == IF s = <<>> THEN 0 ELSE Head(s) + SumSeq(Tail(s))

Range(s) == {s[k] : k \in 1..Len(s)}

\* randint(a,b): a + floor(rand()*(b-a+1)) with rand() in [0,1).
randint(a, b) == a..b

\* choice(arr): arr[floor(rand()*arr.length)].
choice(arr) == Range(arr)

VARIABLES
    pc,                 \* position of the script
    N_USERS,            \* configured population size
    nCommunities, communities, rem,
    created, communityIndex, assignedToCurrent, GLOBAL_USER_ID,
    allUserIds, idsByCommunity, idsByCity, degree, userBatch,
    submitted,          \* the batches handed to insertMany for the current kind
    insertStatus,       \* what the latest insertMany did: "none", "ok", "error"
    targetEdges, baseDegrees, sumBase, targetDegrees, sumAssigned, remaining, idx,
    uPos,               \* position of a "for (const id of allUserIds)" loop
    userCommunityMap, userCityMap,
    picked,             \* a call of pickNeighbor taken by itself: input and result
    tries, friendSet, edgeBatch, totalEdges,
    nF, made, candidate, followSet, followBatch,
    iInteraction,       \* the loop counter i of line 358
    interactionsBatch,
    nowMs,              \* the wall clock that new Date() reads
    runs                \* two runs of the script side by side (determinism)

partVars == <<nCommunities, communities, rem>>

userVars == <<created, communityIndex, assignedToCurrent, GLOBAL_USER_ID,
              allUserIds, idsByCommunity, idsByCity, degree, userBatch>>

storeVars == <<submitted, insertStatus>>

planVars == <<targetEdges, baseDegrees, sumBase, targetDegrees, sumAssigned,
              remaining, idx>>

mapVars == <<userCommunityMap, userCityMap, picked>>

friendVars == <<tries, friendSet, edgeBatch, totalEdges>>

followVars == <<nF, made, candidate, followSet, followBatch>>

interVars == <<iInteraction, interactionsBatch, nowMs, runs>>

graphVars == <<mapVars, friendVars, followVars, interVars>>

vars == <<pc, N_USERS, partVars, userVars, storeVars, planVars, uPos, graphVars>>

\* An object used as a map: obj[key] is undefined until the key is set.
EmptyMap == <<>>

Has(obj, key) == key \in DOMAIN obj

\* obj[key].push(v), creating the list when the key is new.
PushAt(obj, key, v) ==
    IF Has(obj, key) THEN [obj EXCEPT ![key] = Append(@, v)]
    ELSE [k \in DOMAIN obj \cup {key} |-> IF k = key THEN <<v>> ELSE obj[k]]

\* obj[key] = v
SetAt(obj, key, v) ==
    [k \in DOMAIN obj \cup {key} |-> IF k = key THEN v ELSE obj[k]]

\* The planner's variables before line 194 declares them.
PlanIdle ==
    /\ targetEdges = 0 /\ baseDegrees = EmptyMap /\ sumBase = 0
    /\ targetDegrees = EmptyMap /\ sumAssigned = 0 /\ remaining = 0 /\ idx = 0

\* null, as pickNeighbor returns it; user ids start at 1.
Null == 0

\* No call of pickNeighbor taken by itself.
NoPick == <<>>

\* The friend builder's variables before lines 179-180 and 241-277 declare them.
FriendIdle ==
    /\ userCommunityMap = EmptyMap /\ userCityMap = EmptyMap /\ picked = NoPick
    /\ tries = 0 /\ friendSet = {} /\ edgeBatch = <<>>
    /\ totalEdges = 0

\* The follow builder's variables before lines 304-315 declare them.
FollowIdle ==
    /\ nF = 0 /\ made = 0 /\ candidate = Null /\ followSet = {} /\ followBatch = <<>>

\* The interaction emitter's variables before lines 346-358 declare them.
InteractionsIdle == iInteraction = 0 /\ interactionsBatch = <<>> /\ nowMs = 0

\* A single run of the script: no second run beside it.
NoRuns == <<>>

\* --------------------------------------------------- population partitioner
\* The state before line 89.
InitScript(n) ==
    /\ pc = "start"
    /\ runs = NoRuns
    /\ PlanIdle /\ uPos = 0 /\ FriendIdle /\ FollowIdle /\ InteractionsIdle
    /\ N_USERS = n
    /\ nCommunities = 0 /\ communities = <<>> /\ rem = 0
    /\ created = 0 /\ communityIndex = 0 /\ assignedToCurrent = 0
    /\ GLOBAL_USER_ID = 1
    /\ allUserIds = <<>> /\ idsByCommunity = EmptyMap /\ idsByCity = EmptyMap
    /\ degree = EmptyMap /\ userBatch = <<>>
    /\ submitted = <<>> /\ insertStatus = "none"

\* Lines 89-93: draw the community count.
DrawCommunities ==
    /\ pc = "start"
    /\ nCommunities' \in randint(MinCommunities, MaxCommunities)
    /\ communities' = <<>>
    /\ rem' = N_USERS
    /\ pc' = "sizing"
    /\ UNCHANGED <<N_USERS, userVars, storeVars, planVars, uPos, graphVars>>

\* The lower bound with a wrong divisor.
MinShareThird(n, c) == n \div (c * 3)

\* Line 95: the lower bound of every share.
MinShare(n, c) == n \div (c * 2)

\* The share with the whole remainder as its upper bound.
TakeChoicesWide(n, c, r, i) == randint(MinShare(n, c), Max(MinShare(n, c), r))

\* Line 97: the sizes community i can take when r users are unassigned.
TakeChoices(n, c, r, i) ==
    randint(MinShare(n, c), Max(MinShare(n, c), r \div (c - i)))

\* The sizing loop with "rem -= take" forgotten.
SizeCommunityNoDecrement ==
    /\ pc = "sizing"
    /\ Len(communities) < nCommunities
    /\ IF Len(communities) = nCommunities - 1
       THEN /\ communities' = Append(communities, rem)
            /\ pc' = "users"
       ELSE \E take \in TakeChoices(N_USERS, nCommunities, rem, Len(communities)) :
            /\ communities' = Append(communities, take)
            /\ pc' = "sizing"
    /\ UNCHANGED <<N_USERS, nCommunities, rem, userVars, storeVars, planVars, uPos,
                   graphVars>>

\* Lines 94-100: one iteration of the sizing loop (i = communities.length).
SizeCommunity ==
    /\ pc = "sizing"
    /\ Len(communities) < nCommunities
    /\ IF Len(communities) = nCommunities - 1
       THEN /\ communities' = Append(communities, rem)
            /\ rem' = rem
            /\ pc' = "users"
       ELSE \E take \in TakeChoices(N_USERS, nCommunities, rem, Len(communities)) :
            /\ communities' = Append(communities, take)
            /\ rem' = rem - take
            /\ pc' = "sizing"
    /\ UNCHANGED <<N_USERS, nCommunities, userVars, storeVars, planVars, uPos,
                   graphVars>>

\* The sizing loop taken by itself, for populations up to MaxSizingUsers and up
\* to MaxSizingCommunities communities: the state at line 94, nCommunities drawn.
InitSizing ==
    \E n \in 1..MaxSizingUsers, c \in MinCommunities..MaxSizingCommunities :
        /\ pc = "sizing"
        /\ runs = NoRuns
        /\ PlanIdle /\ uPos = 0 /\ FriendIdle /\ FollowIdle /\ InteractionsIdle
        /\ N_USERS = n
        /\ nCommunities = c /\ communities = <<>> /\ rem = n
        /\ created = 0 /\ communityIndex = 0 /\ assignedToCurrent = 0
        /\ GLOBAL_USER_ID = 1
        /\ allUserIds = <<>> /\ idsByCommunity = EmptyMap /\ idsByCity = EmptyMap
        /\ degree = EmptyMap /\ userBatch = <<>>
        /\ submitted = <<>> /\ insertStatus = "none"

SpecSizing == InitSizing /\ [][SizeCommunity]_vars

\* Line 119: communities[communityIndex] is undefined past the end of the array
\* and the comparison with undefined is false.
CommunityFull(sizes, index, assigned) ==
    /\ index + 1 <= Len(sizes)
    /\ assigned >= sizes[index + 1]

\* Lines 119-121: the community of the next user, and the counters after it.
AssignCommunity(sizes, index, assigned) ==
    IF CommunityFull(sizes, index, assigned)
    THEN [communityIndex |-> index + 1, assignedToCurrent |-> 1]
    ELSE [communityIndex |-> index, assignedToCurrent |-> assigned + 1]

\* The user document: identity, community and city (the demographic attributes
\* are opaque to the generator).
UserDoc(id, community, city) == [_id |-> id, community |-> community, city |-> city]

\* Lines 156-165: the batch is inserted when it is full or the last user was made.
UsersFlushDue(batch, count, n) == Len(batch) >= BATCH_SIZE \/ count = n

\* Lines 158-162: try { insertMany } catch(e) { print }: the error is not rethrown.
\* (The count printed on line 163 is a read; the store is taken to answer it.)
UsersInsertThrows(outcome) == FALSE

\* The bookkeeping of the user loop as one value.
UserState ==
    [created |-> created, communityIndex |-> communityIndex,
     assignedToCurrent |-> assignedToCurrent, GLOBAL_USER_ID |-> GLOBAL_USER_ID,
     allUserIds |-> allUserIds, idsByCommunity |-> idsByCommunity,
     idsByCity |-> idsByCity, degree |-> degree]

\* Lines 117-154 without the batch: the bookkeeping after one more user is made
\* and placed in the drawn city.
UserStep(s, sizes, city) ==
    LET a == AssignCommunity(sizes, s.communityIndex, s.assignedToCurrent)
        id == s.GLOBAL_USER_ID
    IN  [created |-> s.created + 1,
         communityIndex |-> a.communityIndex,
         assignedToCurrent |-> a.assignedToCurrent,
         GLOBAL_USER_ID |-> id + 1,
         allUserIds |-> Append(s.allUserIds, id),
         idsByCommunity |-> PushAt(s.idsByCommunity, a.communityIndex, id),
         idsByCity |-> PushAt(s.idsByCity, city, id),
         degree |-> SetAt(s.degree, id, 0)]

\* Lines 117-166: one iteration of the user loop.
CreateUser ==
    /\ pc = "users"
    /\ created < N_USERS
    /\ \E city \in Cities, outcome \in InsertOutcomes :
        LET s == UserStep(UserState, communities, city)
            id == GLOBAL_USER_ID
            batch == Append(userBatch, UserDoc(id, s.communityIndex, city))
            flush == UsersFlushDue(batch, s.created, N_USERS)
            thrown == flush /\ UsersInsertThrows(outcome)
        IN  /\ created' = s.created
            /\ communityIndex' = s.communityIndex
            /\ assignedToCurrent' = s.assignedToCurrent
            /\ GLOBAL_USER_ID' = s.GLOBAL_USER_ID
            /\ allUserIds' = s.allUserIds
            /\ idsByCommunity' = s.idsByCommunity
            /\ idsByCity' = s.idsByCity
            /\ degree' = s.degree
            /\ submitted' = IF flush THEN Append(submitted, batch) ELSE submitted
            /\ insertStatus' = IF flush THEN outcome ELSE insertStatus
            /\ userBatch' = IF flush /\ ~thrown THEN <<>> ELSE batch
            /\ pc' = IF thrown THEN "aborted"
                     ELSE IF s.created = N_USERS THEN "usersDone" ELSE "users"
    /\ UNCHANGED <<N_USERS, partVars, planVars, uPos, graphVars>>

InitUsers == \E n \in 1..MaxUsers : InitScript(n)

NextUsers == DrawCommunities \/ SizeCommunity \/ CreateUser

SpecUsers == InitUsers /\ [][NextUsers]_vars

\* ------------------------------------------- the state after user generation
\* Lines 94-100 run to the end: every size list the sizing loop can produce.
RECURSIVE SizingRuns(_, _, _, _)
SizingRuns(n, c, sizes, r) ==
    IF Len(sizes) = c - 1 THEN {Append(sizes, r)}
    ELSE UNION {SizingRuns(n, c, Append(sizes, take), r - take) :
                    take \in TakeChoices(n, c, r, Len(sizes))}

\* Lines 117-166 run to the end: the bookkeeping after n users were made.
RECURSIVE UsersRuns(_, _, _)
UsersRuns(s, sizes, n) ==
    IF s.created = n THEN {s}
    ELSE UNION {UsersRuns(UserStep(s, sizes, city), sizes, n) : city \in Cities}

FirstUserState ==
    [created |-> 0, communityIndex |-> 0, assignedToCurrent |-> 0,
     GLOBAL_USER_ID |-> 1, allUserIds |-> <<>>, idsByCommunity |-> EmptyMap,
     idsByCity |-> EmptyMap, degree |-> EmptyMap]

\* The users made: the populations of n users that lines 89-166 can leave
\* behind, nothing of the later phases begun.
AfterUsers(n) ==
    \E c \in randint(MinCommunities, MaxCommunities) :
      \E sizes \in SizingRuns(n, c, <<>>, n) :
        \E s \in UsersRuns(FirstUserState, sizes, n) :
          /\ N_USERS = n
          /\ nCommunities = c /\ communities = sizes /\ rem = sizes[c]
          /\ created = s.created
          /\ communityIndex = s.communityIndex
          /\ assignedToCurrent = s.assignedToCurrent
          /\ GLOBAL_USER_ID = s.GLOBAL_USER_ID
          /\ allUserIds = s.allUserIds
          /\ idsByCommunity = s.idsByCommunity
          /\ idsByCity = s.idsByCity
          /\ degree = s.degree
          /\ userBatch = <<>>
          /\ submitted = <<>> /\ insertStatus = "none"
          /\ PlanIdle /\ uPos = 0 /\ FriendIdle /\ FollowIdle /\ InteractionsIdle

\* The script at line 193, the users made.  The edges collection has seen no
\* insert yet.
InitAfterUsers(n) == AfterUsers(n) /\ pc = "budget" /\ runs = NoRuns

\* ------------------------------------------------------------ degree planner
\* Line 195.
totalStubs == targetEdges * 2

\* Line 194: draw the edge budget; lines 199-200.
DrawBudget ==
    /\ pc = "budget"
    /\ targetEdges' \in randint(TARGET_EDGE_MIN, TARGET_EDGE_MAX)
    /\ baseDegrees' = EmptyMap
    /\ sumBase' = 0
    /\ uPos' = 1
    /\ pc' = "base"
    /\ UNCHANGED <<N_USERS, partVars, userVars, storeVars, targetDegrees,
                   sumAssigned, remaining, idx, graphVars>>

\* Line 202: the base degrees a user can draw.
BaseDegreeChoices ==
    {Max(1, d) : d \in randint(AVG_DEGREE - FRIEND_DEGREE_VARIANCE,
                               AVG_DEGREE + FRIEND_DEGREE_VARIANCE)}

\* Lines 201-205: one iteration of the base-degree loop; after the last one,
\* lines 208-210.
DrawBaseDegree ==
    /\ pc = "base"
    /\ uPos <= Len(allUserIds)
    /\ \E d \in BaseDegreeChoices :
        /\ baseDegrees' = SetAt(baseDegrees, allUserIds[uPos], d)
        /\ sumBase' = sumBase + d
    /\ IF uPos = Len(allUserIds)
       THEN /\ uPos' = 1
            /\ targetDegrees' = EmptyMap
            /\ sumAssigned' = 0
            /\ pc' = "scale"
       ELSE /\ uPos' = uPos + 1
            /\ UNCHANGED <<targetDegrees, sumAssigned>>
            /\ pc' = "base"
    /\ UNCHANGED <<N_USERS, partVars, userVars, storeVars, targetEdges, remaining, idx,
                   graphVars>>

RECURSIVE Gcd(_, _)
Gcd(a, b) == IF b = 0 THEN a ELSE Gcd(b, a % b)

RECURSIVE IsPowerOfTwo(_)
IsPowerOfTwo(n) == n = 1 \/ (n > 1 /\ n % 2 = 0 /\ IsPowerOfTwo(n \div 2))

\* Lines 208 and 212: Math.floor(d * scaleFactor), scaleFactor the double nearest
\* to stubs / total (1.0 when total is 0).  The double product can differ from the
\* exact one only by rounding, which changes the floor only where the exact
\* product is an integer and stubs / total is no binary fraction: there the
\* double lands on the integer or just below it (49 * (1/49) < 1).
ScaledFloor(d, stubs, total) ==
    IF total <= 0 THEN {d}
    ELSE LET q == (d * stubs) \div total
         IN  IF (d * stubs) % total = 0 /\ ~IsPowerOfTwo(total \div Gcd(stubs, total))
             THEN {q - 1, q}
             ELSE {q}

\* Line 212: the first-pass target of a user.
AssignedChoices(d, stubs, total) == {Max(1, f) : f \in ScaledFloor(d, stubs, total)}

\* The balance test leaving one stub undistributed.
AfterBalanceLate(r) == IF r > 1 THEN "shortfall" ELSE IF r < 0 THEN "trim" ELSE "planned"

\* Lines 218-235: where the script goes with a given balance.
AfterBalance(r) == IF r > 0 THEN "shortfall" ELSE IF r < 0 THEN "trim" ELSE "planned"

\* Lines 211-215: one iteration of the scaling loop; after the last one,
\* lines 218-220 and, when the targets overshoot, line 229.
AssignDegree ==
    /\ pc = "scale"
    /\ uPos <= Len(allUserIds)
    /\ \E assigned \in AssignedChoices(baseDegrees[allUserIds[uPos]], totalStubs, sumBase) :
        /\ targetDegrees' = SetAt(targetDegrees, allUserIds[uPos], assigned)
        /\ sumAssigned' = sumAssigned + assigned
    /\ IF uPos = Len(allUserIds)
       THEN /\ uPos' = 0
            /\ remaining' = totalStubs - sumAssigned'
            /\ idx' = 0
            /\ pc' = AfterBalance(remaining')
       ELSE /\ uPos' = uPos + 1
            /\ UNCHANGED <<remaining, idx>>
            /\ pc' = "scale"
    /\ UNCHANGED <<N_USERS, partVars, userVars, storeVars, targetEdges, baseDegrees,
                   sumBase, graphVars>>

\* Lines 222-225: one more stub for the user at idx.  idx is only ever used
\* modulo idsLen, and is kept modulo idsLen.
AddStubStep(td, at) == [td EXCEPT ![allUserIds[at + 1]] = @ + 1]

\* Lines 221-226: one iteration of the shortfall loop.
AddStub ==
    /\ pc = "shortfall"
    /\ remaining > 0 /\ Len(allUserIds) > 0
    /\ targetDegrees' = AddStubStep(targetDegrees, idx)
    /\ remaining' = remaining - 1
    /\ idx' = (idx + 1) % Len(allUserIds)
    /\ pc' = AfterBalance(remaining')
    /\ UNCHANGED <<N_USERS, partVars, userVars, storeVars, targetEdges, baseDegrees,
                   sumBase, sumAssigned, uPos, graphVars>>

\* The trimming test with the floor of 1 missing.
CanTrimAny(td, at) == td[allUserIds[at + 1]] > 0

\* Line 232: a target is trimmed only while it is above 1.
CanTrim(td, at) == td[allUserIds[at + 1]] > 1

\* Lines 230-234: one iteration of the trimming loop.
TrimStub ==
    /\ pc = "trim"
    /\ remaining < 0 /\ Len(allUserIds) > 0
    /\ IF CanTrim(targetDegrees, idx)
       THEN /\ targetDegrees' = [targetDegrees EXCEPT ![allUserIds[idx + 1]] = @ - 1]
            /\ remaining' = remaining + 1
       ELSE UNCHANGED <<targetDegrees, remaining>>
    /\ idx' = (idx + 1) % Len(allUserIds)
    /\ pc' = AfterBalance(remaining')
    /\ UNCHANGED <<N_USERS, partVars, userVars, storeVars, targetEdges, baseDegrees,
                   sumBase, sumAssigned, uPos, graphVars>>

InitPlan == \E n \in 1..MaxGraphUsers : InitAfterUsers(n)

NextPlan == DrawBudget \/ DrawBaseDegree \/ AssignDegree \/ AddStub \/ TrimStub

SpecPlan == InitPlan /\ [][NextPlan]_vars

\* The planner run to its end: the script keeps executing while it has a next
\* statement.
SpecPlanFair == SpecPlan /\ WF_vars(NextPlan)

\* --------------------------------------------------------- friend-edge builder
\* Number.prototype.toString: the decimal digits of a positive integer.
RECURSIVE toString(_)
toString(n) == IF n < 10 THEN <<n>> ELSE Append(toString(n \div 10), n % 10)

\* s < t on strings: the first differing character decides, a proper prefix is
\* smaller.
RECURSIVE StrLess(_, _)
StrLess(s, t) ==
    IF t = <<>> THEN FALSE
    ELSE IF s = <<>> THEN TRUE
    ELSE IF Head(s) # Head(t) THEN Head(s) < Head(t)
    ELSE StrLess(Tail(s), Tail(t))

\* A pair key that keeps the order of its arguments.
pairKeyOrdered(a, b) == <<toString(a), toString(b)>>

\* Lines 171-174: s + "|" + t with the smaller string first; the key is kept as
\* the two strings.
pairKey(a, b) ==
    LET s == toString(a)
        t == toString(b)
    IN  IF StrLess(s, t) THEN <<s, t>> ELSE <<t, s>>

\* Lines 243-248: the lookup maps from the member lists.
LookupMap(lists) ==
    [id \in UNION {Range(lists[k]) : k \in DOMAIN lists} |->
        CHOOSE k \in DOMAIN lists : id \in Range(lists[k])]

\* Lines 237-248 and 276-278: the planner is done; build the lookup maps and
\* enter the friend loop at the first user.  The planner's working values
\* (baseDegrees, sumBase, sumAssigned, idx) are read by nothing after line 235
\* and are no longer tracked.
StartFriends ==
    /\ pc = "planned"
    /\ userCommunityMap' = LookupMap(idsByCommunity)
    /\ userCityMap' = LookupMap(idsByCity)
    /\ totalEdges' = 0
    /\ uPos' = 1
    /\ tries' = 0
    /\ baseDegrees' = EmptyMap /\ sumBase' = 0 /\ sumAssigned' = 0 /\ idx' = 0
    /\ pc' = "friends"
    /\ UNCHANGED <<N_USERS, partVars, userVars, storeVars, targetEdges, targetDegrees,
                   remaining, friendSet, edgeBatch, followVars, interVars, picked>>

\* The three ranges of r in pickNeighbor: r < 0.75, 0.75 <= r < 0.9, r >= 0.9.
NeighborBands == {"below75", "below90", "rest"}

\* Lines 255-262: the pool pickNeighbor draws from.
NeighborPool(uId, band) ==
    LET cidx == userCommunityMap[uId]
        city == userCityMap[uId]
    IN  IF band = "below75" /\ Has(idsByCommunity, cidx)
           /\ Len(idsByCommunity[cidx]) > 1
        THEN idsByCommunity[cidx]
        ELSE IF band \in {"below75", "below90"} /\ Has(idsByCity, city)
                /\ Len(idsByCity[city]) > 1
        THEN idsByCity[city]
        ELSE allUserIds

\* pool.filter(id => id !== uId)
Others(pool, uId) == SelectSeq(pool, LAMBDA id : id # uId)

\* Lines 23-31: sample(arr, k): the whole array when k >= arr.length, else k
\* elements at distinct indices, in the order drawn.
sample(arr, k) ==
    IF k >= Len(arr) THEN {arr}
    ELSE {[j \in 1..k |-> arr[f[j]]] :
            f \in {g \in [1..k -> 1..Len(arr)] :
                     \A x, y \in 1..k : x # y => g[x] # g[y]}}

\* Line 264: the candidate lists that can be sampled from a pool, size being
\* the 6 of that line.
CandidatesOf(pool, uId, size) ==
    sample(Others(pool, uId), Min(size, Max(0, Len(pool) - 1)))

\* Line 264: the candidate lists pickNeighbor can sample.
Candidates(uId, band) == CandidatesOf(NeighborPool(uId, band), uId, SAMPLE_SIZE)

\* degree[cand] || 0
DegreeOf(deg, id) == IF Has(deg, id) THEN deg[id] ELSE 0

\* The scan taking a later candidate of equal degree.
RECURSIVE ScanBestLast(_, _, _, _, _)
ScanBestLast(cands, uId, deg, best, bestDeg) ==
    IF cands = <<>> THEN best
    ELSE LET cand == Head(cands)
             dv == DegreeOf(deg, cand)
         IN  IF dv >= bestDeg /\ cand # uId
             THEN ScanBestLast(Tail(cands), uId, deg, cand, dv)
             ELSE ScanBestLast(Tail(cands), uId, deg, best, bestDeg)

\* Lines 265-270: the scan for the highest degree.
RECURSIVE ScanBest(_, _, _, _, _)
ScanBest(cands, uId, deg, best, bestDeg) ==
    IF cands = <<>> THEN best
    ELSE LET cand == Head(cands)
             dv == DegreeOf(deg, cand)
         IN  IF dv > bestDeg /\ cand # uId
             THEN ScanBest(Tail(cands), uId, deg, cand, dv)
             ELSE ScanBest(Tail(cands), uId, deg, best, bestDeg)

\* Lines 265-272: the neighbor picked from a sampled candidate list.
PickBest(cands, uId, deg) ==
    LET best == ScanBest(cands, uId, deg, Null, -1)
    IN  IF best = Null /\ Len(cands) > 0 THEN cands[1] ELSE best

\* pickNeighbor taken by itself: populations up to MaxPickUsers, any degree
\* counters up to MaxPickDegree, the lookup maps of lines 241-248 built, and
\* samples of up to PickSampleSize candidates.
InitPick ==
    \E n \in 1..MaxPickUsers :
      \E c \in randint(MinCommunities, MaxCommunities) :
        \E sizes \in SizingRuns(n, c, <<>>, n) :
          \E s \in UsersRuns(FirstUserState, sizes, n) :
            \E deg \in [Range(s.allUserIds) -> 0..MaxPickDegree] :
              /\ pc = "pick"
              /\ N_USERS = n
              /\ nCommunities = c /\ communities = sizes /\ rem = sizes[c]
              /\ created = s.created
              /\ communityIndex = s.communityIndex
              /\ assignedToCurrent = s.assignedToCurrent
              /\ GLOBAL_USER_ID = s.GLOBAL_USER_ID
              /\ allUserIds = s.allUserIds
              /\ idsByCommunity = s.idsByCommunity
              /\ idsByCity = s.idsByCity
              /\ degree = deg
              /\ userBatch = <<>>
              /\ submitted = <<>> /\ insertStatus = "none"
              /\ userCommunityMap = LookupMap(s.idsByCommunity)
              /\ userCityMap = LookupMap(s.idsByCity)
              /\ picked = NoPick
              /\ tries = 0 /\ friendSet = {} /\ edgeBatch = <<>> /\ totalEdges = 0
              /\ PlanIdle /\ uPos = 0 /\ FollowIdle /\ InteractionsIdle
              /\ runs = NoRuns

\* Lines 251-273: one call pickNeighbor(uId).
PickNeighbor ==
    /\ pc = "pick"
    /\ \E uId \in Range(allUserIds), band \in NeighborBands :
        LET pool == NeighborPool(uId, band)
        IN  \E cands \in CandidatesOf(pool, uId, PickSampleSize) :
            picked' = [uId |-> uId, pool |-> pool, candidates |-> cands,
                       best |-> PickBest(cands, uId, degree)]
    /\ UNCHANGED <<pc, N_USERS, partVars, userVars, storeVars, planVars, uPos,
                   userCommunityMap, userCityMap, friendVars, followVars, interVars>>

SpecPick == InitPick /\ [][PickNeighbor]_vars

\* flushEdges with the catch missing: a failed insert leaves the function by the
\* exception.
flushEdgesUncaught(batch, log, status, outcome) ==
    IF Len(batch) > 0
    THEN [batch |-> IF outcome = "error" THEN batch ELSE <<>>,
          submitted |-> Append(log, batch),
          insertStatus |-> outcome, thrown |-> outcome = "error"]
    ELSE [batch |-> batch, submitted |-> log, insertStatus |-> status, thrown |-> FALSE]

\* Lines 181-191: flushEdges.  A non-empty batch is handed to insertMany, an
\* error is caught and printed, and the batch is emptied.
flushEdges(batch, log, status, outcome) ==
    IF Len(batch) > 0
    THEN [batch |-> <<>>, submitted |-> Append(log, batch),
          insertStatus |-> outcome, thrown |-> FALSE]
    ELSE [batch |-> batch, submitted |-> log, insertStatus |-> status, thrown |-> FALSE]

\* Line 279: targetDegrees[uId] || 1
Desired(uId) ==
    IF Has(targetDegrees, uId) /\ targetDegrees[uId] # 0 THEN targetDegrees[uId] ELSE 1

\* The user the friend loop (or the follow loop) is at.
CurrentUser == allUserIds[uPos]

\* The inner loop's condition with the budget test missing.
WantsFriendsNoBudget(uId) == degree[uId] < Desired(uId)

\* Line 281: the condition of the inner loop.
WantsFriends(uId) == degree[uId] < Desired(uId) /\ totalEdges < targetEdges

\* Line 282: the retry cap, tested on the value of tries before its increment.
RetriesExhausted(uId, n) == n > Desired(uId) * FRIEND_RETRY

\* Lines 284-287: the draws that are discarded.
FriendRejected(uId, v) == v = Null \/ uId = v \/ pairKey(uId, v) \in friendSet

\* Line 290: the edge document; the weight 1.0 in tenths.
FriendDoc(uId, v) ==
    [type |-> "friend", src |-> uId, dst |-> v, pair |-> pairKey(uId, v), weight |-> 10]

\* The counters with only the drawing user's end of the edge counted.
DegreesAfterSrcOnly(deg, uId, v) == [deg EXCEPT ![uId] = @ + 1]

\* Line 291: degree[uId]++; degree[vId] = (degree[vId] || 0) + 1.
DegreesAfter(deg, uId, v) ==
    [deg EXCEPT ![uId] = @ + 1, ![v] = DegreeOf(deg, v) + 1]

\* The outer loop is left: uId and tries go out of scope; line 299 is next.
FriendLoopEnd == uPos' = 0 /\ tries' = 0 /\ pc' = "friendsFlush"

\* Lines 278-280 of the next iteration of the outer loop, or the end of the loop.
FriendAdvance ==
    IF uPos < Len(allUserIds)
    THEN uPos' = uPos + 1 /\ tries' = 0 /\ pc' = "friends"
    ELSE FriendLoopEnd

\* What the insertMany of a flush can do; a flush that is not due makes no call.
OutcomesIf(due) == IF due THEN InsertOutcomes ELSE {"none"}

\* Lines 281-296: one iteration of the inner loop that draws a neighbor.
FriendAttempt ==
    /\ pc = "friends"
    /\ WantsFriends(CurrentUser)
    /\ ~RetriesExhausted(CurrentUser, tries)
    /\ tries' = tries + 1
    /\ \E band \in NeighborBands :
       \E cands \in Candidates(CurrentUser, band) :
        LET uId == CurrentUser
            v == PickBest(cands, uId, degree)
            batch == Append(edgeBatch, FriendDoc(uId, v))
            due == Len(batch) >= BATCH_SIZE
        IN  IF FriendRejected(uId, v)
            THEN /\ UNCHANGED <<friendSet, edgeBatch, degree, totalEdges, storeVars>>
                 /\ pc' = "friends"
            ELSE \E outcome \in OutcomesIf(due) :
                 LET f == IF due
                          THEN flushEdges(batch, submitted, insertStatus, outcome)
                          ELSE [batch |-> batch, submitted |-> submitted,
                                insertStatus |-> insertStatus, thrown |-> FALSE]
                 IN  /\ friendSet' = friendSet \cup {pairKey(uId, v)}
                     /\ degree' = DegreesAfter(degree, uId, v)
                     /\ totalEdges' = totalEdges + 1
                     /\ edgeBatch' = f.batch
                     /\ submitted' = f.submitted
                     /\ insertStatus' = f.insertStatus
                     /\ pc' = IF f.thrown THEN "aborted" ELSE "friends"
    /\ UNCHANGED <<N_USERS, partVars, created, communityIndex, assignedToCurrent,
                   GLOBAL_USER_ID, allUserIds, idsByCommunity, idsByCity, userBatch,
                   planVars, uPos, mapVars, followVars, interVars>>

\* Line 282 breaking out of the inner loop, then line 297 and the next user.
FriendGiveUp ==
    /\ pc = "friends"
    /\ WantsFriends(CurrentUser)
    /\ RetriesExhausted(CurrentUser, tries)
    /\ FriendAdvance
    /\ UNCHANGED <<N_USERS, partVars, userVars, storeVars, planVars, mapVars,
                   friendSet, edgeBatch, totalEdges, followVars, interVars>>

\* Line 281 ending the inner loop, then line 297: stop when the budget is
\* reached, else the next user.
FriendNextUser ==
    /\ pc = "friends"
    /\ ~WantsFriends(CurrentUser)
    /\ IF totalEdges >= targetEdges
       THEN FriendLoopEnd
       ELSE FriendAdvance
    /\ UNCHANGED <<N_USERS, partVars, userVars, storeVars, planVars, mapVars,
                   friendSet, edgeBatch, totalEdges, followVars, interVars>>

\* Line 299: the final flushEdges().
FlushFriends ==
    /\ pc = "friendsFlush"
    /\ \E outcome \in OutcomesIf(Len(edgeBatch) > 0) :
        LET f == flushEdges(edgeBatch, submitted, insertStatus, outcome)
        IN  /\ edgeBatch' = f.batch
            /\ submitted' = f.submitted
            /\ insertStatus' = f.insertStatus
            /\ pc' = IF f.thrown THEN "aborted" ELSE "friendsDone"
    /\ UNCHANGED <<N_USERS, partVars, userVars, planVars, uPos, mapVars,
                   tries, friendSet, totalEdges, followVars, interVars>>

NextFriend == StartFriends \/ FriendAttempt \/ FriendGiveUp \/ FriendNextUser
              \/ FlushFriends

SpecFriend == InitPlan /\ [][NextPlan \/ NextFriend]_vars

\* --------------------------------------------------------- follow-edge builder
\* Lines 300-316: the friend edges are done; followBatch and followSet start
\* empty and the loop enters its first user.  What only the friend builder read
\* (degree, targetDegrees, targetEdges, totalEdges, the city lists) is read by
\* nothing from here on and is no longer tracked; friendSet stays as it is.
\* The record of inserts starts afresh for flushFollow.
StartFollows ==
    /\ pc = "friendsDone"
    /\ followBatch' = <<>>
    /\ followSet' = {}
    /\ uPos' = 1
    /\ nF' = 0 /\ made' = 0 /\ tries' = 0
    /\ degree' = EmptyMap /\ targetDegrees' = EmptyMap /\ targetEdges' = 0
    /\ totalEdges' = 0 /\ remaining' = 0
    /\ idsByCity' = EmptyMap /\ userCityMap' = EmptyMap
    /\ submitted' = <<>> /\ insertStatus' = "none"
    /\ pc' = "followUser"
    /\ UNCHANGED <<N_USERS, partVars, created, communityIndex, assignedToCurrent,
                   GLOBAL_USER_ID, allUserIds, idsByCommunity, userBatch,
                   baseDegrees, sumBase, sumAssigned, idx, userCommunityMap, picked,
                   friendSet, edgeBatch, candidate, interVars>>

\* Lines 317-319: the personal target of the user and its two counters.
FollowBeginUser ==
    /\ pc = "followUser"
    /\ nF' \in randint(FOLLOW_MIN, FOLLOW_MAX)
    /\ made' = 0
    /\ tries' = 0
    /\ pc' = "follows"
    /\ UNCHANGED <<N_USERS, partVars, userVars, storeVars, planVars, uPos, mapVars,
                   friendSet, edgeBatch, totalEdges, candidate, followSet,
                   followBatch, interVars>>

\* The three ranges of r in the follow loop: r < 0.4, 0.4 <= r < 0.8, r >= 0.8.
FollowBands == {"below40", "below80", "rest"}

\* Lines 324-331: the candidates a draw can give.
FollowChoices(uId, band) ==
    IF band = "below80" THEN choice(idsByCommunity[userCommunityMap[uId]])
    ELSE choice(allUserIds)

\* The follow key made order-independent, as the friend key is.
followKeyCanonical(uId, cand) == pairKey(uId, cand)

\* Line 333: uId + "|" + candidate, kept as the two strings.
followKey(uId, cand) == <<toString(uId), toString(cand)>>

\* The follow test with the self-loop check missing.
FollowRejectedNoSelfCheck(uId, cand) == followKey(uId, cand) \in followSet

\* Lines 332-334: the draws that are discarded.
FollowRejected(uId, cand) == cand = uId \/ followKey(uId, cand) \in followSet

\* Line 336: the edge document; the weight 1.0 in tenths.
FollowDoc(uId, cand) == [type |-> "follow", src |-> uId, dst |-> cand, weight |-> 10]

\* The condition of the inner loop without the cap on the draws.
WantsFollowsNoTryCap == made < nF

\* Line 320: the condition of the inner loop.
WantsFollows == made < nF /\ tries < nF * FOLLOW_RETRY

\* flushFollow without "followBatch = []".
flushFollowNoClear(batch, log, status, outcome) ==
    IF Len(batch) > 0
    THEN [batch |-> batch, submitted |-> Append(log, batch),
          insertStatus |-> outcome, thrown |-> FALSE]
    ELSE [batch |-> batch, submitted |-> log, insertStatus |-> status, thrown |-> FALSE]

\* Lines 305-314: flushFollow, as flushEdges.
flushFollow(batch, log, status, outcome) ==
    IF Len(batch) > 0
    THEN [batch |-> <<>>, submitted |-> Append(log, batch),
          insertStatus |-> outcome, thrown |-> FALSE]
    ELSE [batch |-> batch, submitted |-> log, insertStatus |-> status, thrown |-> FALSE]

\* Lines 320-339: one iteration of the inner loop.
FollowAttempt ==
    /\ pc = "follows"
    /\ WantsFollows
    /\ tries' = tries + 1
    /\ \E band \in FollowBands :
       \E cand \in FollowChoices(CurrentUser, band) :
        LET uId == CurrentUser
            batch == Append(followBatch, FollowDoc(uId, cand))
            due == Len(batch) >= BATCH_SIZE
        IN  /\ candidate' = cand
            /\ IF FollowRejected(uId, cand)
               THEN /\ UNCHANGED <<followSet, followBatch, made, storeVars>>
                    /\ pc' = "follows"
               ELSE \E outcome \in OutcomesIf(due) :
                    LET f == IF due
                             THEN flushFollow(batch, submitted, insertStatus, outcome)
                             ELSE [batch |-> batch, submitted |-> submitted,
                                   insertStatus |-> insertStatus, thrown |-> FALSE]
                    IN  /\ followSet' = followSet \cup {followKey(uId, cand)}
                        /\ made' = made + 1
                        /\ followBatch' = f.batch
                        /\ submitted' = f.submitted
                        /\ insertStatus' = f.insertStatus
                        /\ pc' = IF f.thrown THEN "aborted" ELSE "follows"
    /\ UNCHANGED <<N_USERS, partVars, userVars, planVars, uPos, mapVars,
                   friendSet, edgeBatch, totalEdges, nF, interVars>>

\* Line 320 ending the inner loop: the next user, or the end of the outer loop,
\* where the loop's variables go out of scope.
FollowNextUser ==
    /\ pc = "follows"
    /\ ~WantsFollows
    /\ IF uPos < Len(allUserIds)
       THEN /\ uPos' = uPos + 1
            /\ pc' = "followUser"
            /\ UNCHANGED <<nF, made, tries, candidate>>
       ELSE /\ uPos' = 0
            /\ nF' = 0 /\ made' = 0 /\ tries' = 0 /\ candidate' = Null
            /\ pc' = "followsFlush"
    /\ UNCHANGED <<N_USERS, partVars, userVars, storeVars, planVars, mapVars,
                   friendSet, edgeBatch, totalEdges, followSet, followBatch,
                   interVars>>

\* Line 341: the final flushFollow().
FlushFollows ==
    /\ pc = "followsFlush"
    /\ \E outcome \in OutcomesIf(Len(followBatch) > 0) :
        LET f == flushFollow(followBatch, submitted, insertStatus, outcome)
        IN  /\ followBatch' = f.batch
            /\ submitted' = f.submitted
            /\ insertStatus' = f.insertStatus
            /\ pc' = IF f.thrown THEN "aborted" ELSE "followsDone"
    /\ UNCHANGED <<N_USERS, partVars, userVars, planVars, uPos, mapVars,
                   friendVars, nF, made, candidate, followSet, interVars>>

NextFollow == StartFollows \/ FollowBeginUser \/ FollowAttempt \/ FollowNextUser
              \/ FlushFollows

SpecFollow == InitPlan /\ [][NextPlan \/ NextFriend \/ NextFollow]_vars

\* The follow builder is straight-line code: once entered, it keeps running.
SpecFollowFair == SpecFollow /\ WF_vars(NextFollow)

\* --------------------------------------------------------- interaction emitter
\* Lines 342-358: the follow edges are done; interactionsBatch starts empty and
\* the loop starts at i = 0.  The dedup sets and the community lookup are read
\* by nothing from here on and are no longer tracked.  The record of inserts
\* starts afresh for flushInteractions.
StartInteractions ==
    /\ pc = "followsDone"
    /\ interactionsBatch' = <<>>
    /\ iInteraction' = 0
    /\ friendSet' = {} /\ followSet' = {} /\ userCommunityMap' = EmptyMap
    /\ submitted' = <<>> /\ insertStatus' = "none"
    /\ pc' = "interactions"
    /\ UNCHANGED <<N_USERS, partVars, userVars, planVars, uPos, userCityMap, picked,
                   tries, edgeBatch, totalEdges, nF, made, candidate, followBatch,
                   nowMs, runs>>

\* Line 357.
interactionTypes == <<"message", "like", "comment", "view">>

\* Line 363: the weight of a type, in tenths.
InteractionWeight(t) ==
    IF t = "message" THEN 20 ELSE IF t = "comment" THEN 15
    ELSE IF t = "like" THEN 10 ELSE 5

\* Line 364: the interaction document; t is the type and at what new Date() read.
InteractionDoc(actor, target, t, at) ==
    [actor |-> actor, target |-> target, type |-> t,
     weight |-> InteractionWeight(t), createdAt |-> at]

\* Lines 347-356: flushInteractions, as flushEdges.
flushInteractions(batch, log, status, outcome) ==
    IF Len(batch) > 0
    THEN [batch |-> <<>>, submitted |-> Append(log, batch),
          insertStatus |-> outcome, thrown |-> FALSE]
    ELSE [batch |-> batch, submitted |-> log, insertStatus |-> status, thrown |-> FALSE]

\* The self-pair test missing.
SelfPairNever(actor, target) == FALSE

\* Lines 359-361: a draw with actor === target emits nothing.
SelfPair(actor, target) == actor = target

\* Lines 358-366: one iteration of the interaction loop.
EmitInteraction ==
    /\ pc = "interactions"
    /\ iInteraction < N_INTERACTIONS
    /\ iInteraction' = iInteraction + 1
    /\ \E actor \in choice(allUserIds), target \in choice(allUserIds) :
        IF SelfPair(actor, target)
        THEN /\ UNCHANGED <<interactionsBatch, storeVars>>
             /\ pc' = "interactions"
        ELSE \E t \in choice(interactionTypes) :
             LET batch == Append(interactionsBatch,
                                 InteractionDoc(actor, target, t, nowMs))
                 due == Len(batch) >= BATCH_SIZE
             IN  \E outcome \in OutcomesIf(due) :
                 LET f == IF due
                          THEN flushInteractions(batch, submitted, insertStatus, outcome)
                          ELSE [batch |-> batch, submitted |-> submitted,
                                insertStatus |-> insertStatus, thrown |-> FALSE]
                 IN  /\ interactionsBatch' = f.batch
                     /\ submitted' = f.submitted
                     /\ insertStatus' = f.insertStatus
                     /\ pc' = IF f.thrown THEN "aborted" ELSE "interactions"
    /\ UNCHANGED <<N_USERS, partVars, userVars, planVars, uPos, mapVars, friendVars,
                   followVars, nowMs, runs>>

\* Line 367: the final flushInteractions().
FlushInteractions ==
    /\ pc = "interactions"
    /\ iInteraction >= N_INTERACTIONS
    /\ \E outcome \in OutcomesIf(Len(interactionsBatch) > 0) :
        LET f == flushInteractions(interactionsBatch, submitted, insertStatus, outcome)
        IN  /\ interactionsBatch' = f.batch
            /\ submitted' = f.submitted
            /\ insertStatus' = f.insertStatus
            /\ pc' = IF f.thrown THEN "aborted" ELSE "indexes"
    /\ UNCHANGED <<N_USERS, partVars, userVars, planVars, uPos, mapVars, friendVars,
                   followVars, iInteraction, nowMs, runs>>

\* Lines 371-389: the indexes, each createIndex in its own try/catch, and the
\* summary.
CreateIndexes ==
    /\ pc = "indexes"
    /\ pc' = "done"
    /\ UNCHANGED <<N_USERS, partVars, userVars, storeVars, planVars, uPos, graphVars>>

\* The wall clock moves on while the interactions are emitted.
Tick ==
    /\ pc \in {"interactions", "twoRuns"}
    /\ nowMs < MaxClock
    /\ nowMs' = nowMs + 1
    /\ UNCHANGED <<pc, N_USERS, partVars, userVars, storeVars, planVars, uPos, mapVars,
                   friendVars, followVars, iInteraction, interactionsBatch, runs>>

NextInteractions == StartInteractions \/ EmitInteraction \/ FlushInteractions
                    \/ CreateIndexes \/ Tick

\* The script at line 357: the populations lines 89-166 can leave behind, as the
\* edge builders hand them on (StartFriends, StartFollows, StartInteractions),
\* no interaction drawn yet.
InitInteractions ==
    \E n \in 1..MaxGraphUsers :
      \E c \in randint(MinCommunities, MaxCommunities) :
        \E sizes \in SizingRuns(n, c, <<>>, n) :
          \E s \in UsersRuns(FirstUserState, sizes, n) :
            /\ pc = "interactions"
            /\ N_USERS = n
            /\ nCommunities = c /\ communities = sizes /\ rem = sizes[c]
            /\ created = s.created
            /\ communityIndex = s.communityIndex
            /\ assignedToCurrent = s.assignedToCurrent
            /\ GLOBAL_USER_ID = s.GLOBAL_USER_ID
            /\ allUserIds = s.allUserIds
            /\ idsByCommunity = s.idsByCommunity
            /\ idsByCity = EmptyMap
            /\ degree = EmptyMap
            /\ userBatch = <<>>
            /\ submitted = <<>> /\ insertStatus = "none"
            /\ PlanIdle /\ uPos = 0 /\ FriendIdle /\ FollowIdle /\ InteractionsIdle
            /\ runs = NoRuns

NextEmitter == EmitInteraction \/ FlushInteractions \/ CreateIndexes \/ Tick

SpecInteractions == InitInteractions /\ [][NextEmitter]_vars

\* The whole script: the user generation for populations up to MaxUsers, and
\* from the generated populations up to MaxGraphUsers the planner, the two edge
\* builders and the interaction emitter.
Init == InitUsers \/ InitPlan

Next == NextUsers \/ NextPlan \/ NextFriend \/ NextFollow \/ NextInteractions

Spec == Init /\ [][Next]_vars

\* ------------------------------------------------- two runs with one seed
\* 2^16: the generator's 32-bit state is kept as two 16-bit limbs <<high, low>>.
Limb == 256 * 256

\* Line 20: the multiplier 1664525 and the increment 1013904223, in limbs.
LcgA == <<25, 26125>>

LcgC == <<15470, 62303>>

\* Line 20: _seed = ((_seed * 1664525) + 1013904223) % 4294967296.
LcgNext(seed) ==
    LET low == seed[2] * LcgA[2] + LcgC[2]
        high == seed[1] * LcgA[2] + seed[2] * LcgA[1] + LcgC[1] + (low \div Limb)
    IN  <<high % Limb, low % Limb>>

\* Lines 20 and 22: Math.floor(rand() * len) for the state rand() has just left.
FloorOfRand(seed, len) == (seed[1] * len + ((seed[2] * len) \div Limb)) \div Limb

\* Line 22: choice(arr) with that state.
ChoiceAt(arr, seed) == arr[FloorOfRand(seed, Len(arr)) + 1]

\* The generator states the interaction loop is entered with: the script's own
\* initial seed 1234567 (line 19) and two others.  Everything before line 357
\* draws from rand() alone, so two runs arrive with the same state.
EntrySeeds == {<<18, 54919>>, <<0, 1>>, <<40000, 12345>>}

\* Two runs of the script over the same population, both about to enter the
\* interaction loop with the same generator state; one wall clock.
InitTwoRuns ==
    \E n \in 1..MaxGraphUsers, seed \in EntrySeeds :
        /\ AfterUsers(n)
        /\ pc = "twoRuns"
        /\ runs = [r \in {1, 2} |-> [seed |-> seed, i |-> 0, emitted |-> <<>>]]

\* Lines 358-365: one iteration of the interaction loop in run r; emitted is
\* what the run has pushed to interactionsBatch so far.
RunEmit(r) ==
    /\ pc = "twoRuns"
    /\ runs[r].i < N_INTERACTIONS
    /\ LET s1 == LcgNext(runs[r].seed)
           actor == ChoiceAt(allUserIds, s1)
           s2 == LcgNext(s1)
           target == ChoiceAt(allUserIds, s2)
           s3 == LcgNext(s2)
           t == ChoiceAt(interactionTypes, s3)
       IN  runs' = [runs EXCEPT ![r] =
                IF SelfPair(actor, target)
                THEN [seed |-> s2, i |-> @.i + 1, emitted |-> @.emitted]
                ELSE [seed |-> s3, i |-> @.i + 1,
                      emitted |-> Append(@.emitted,
                                         InteractionDoc(actor, target, t, nowMs))]]
    /\ UNCHANGED <<pc, N_USERS, partVars, userVars, storeVars, planVars, uPos, mapVars,
                   friendVars, followVars, iInteraction, interactionsBatch, nowMs>>

NextTwoRuns == (\E r \in {1, 2} : RunEmit(r)) \/ Tick

SpecTwoRuns == InitTwoRuns /\ [][NextTwoRuns]_vars

\* ------------------------------- degree planner, sequential (older script)
\* The older script's planner (part_001, lines 155-173).  It reads the users in
\* the order they were made; their ids are 1..N_USERS there as here.
InitSeqPlan ==
    \E n \in 1..MaxGraphUsers : AfterUsers(n) /\ pc = "seqBudget" /\ runs = NoRuns

\* part_001 lines 155-157: the budget; remaining is remainingDegree.
SeqDrawBudget ==
    /\ pc = "seqBudget"
    /\ targetEdges' \in randint(TARGET_EDGE_MIN, TARGET_EDGE_MAX)
    /\ remaining' = targetEdges' * 2
    /\ targetDegrees' = EmptyMap
    /\ uPos' = 1
    /\ pc' = "seqAssign"
    /\ UNCHANGED <<N_USERS, partVars, userVars, storeVars, baseDegrees, sumBase,
                   sumAssigned, idx, graphVars>>

\* part_001 line 162: the degree a user gets when left stubs remain.
SeqClamp(d, left) == IF left - d < 0 THEN left ELSE d

\* part_001 lines 167 and 173: after the assignment loop the top-up pass runs
\* only when stubs are left.
SeqAfterAssign(left) == IF left > 0 THEN "seqTopUp" ELSE "seqPlanned"

\* part_001 lines 160-166: one iteration of the assignment loop.
SeqAssign ==
    /\ pc = "seqAssign"
    /\ uPos <= Len(allUserIds)
    /\ \E d0 \in BaseDegreeChoices :
        LET d == SeqClamp(d0, remaining)
            left == remaining - d
        IN  /\ targetDegrees' = SetAt(targetDegrees, allUserIds[uPos], d)
            /\ remaining' = left
            /\ IF left <= 0 \/ uPos = Len(allUserIds)
               THEN /\ pc' = SeqAfterAssign(left)
                    /\ uPos' = IF left > 0 THEN 1 ELSE 0
               ELSE /\ pc' = "seqAssign"
                    /\ uPos' = uPos + 1
    /\ UNCHANGED <<N_USERS, partVars, userVars, storeVars, targetEdges, baseDegrees,
                   sumBase, sumAssigned, idx, graphVars>>

\* part_001 lines 168-172: one iteration of the single top-up pass over the keys
\* of targetDegrees (integer keys, visited in ascending order).
SeqTopUp ==
    /\ pc = "seqTopUp"
    /\ uPos \in DOMAIN targetDegrees
    /\ targetDegrees' = [targetDegrees EXCEPT ![uPos] = @ + 1]
    /\ remaining' = remaining - 1
    /\ IF remaining' <= 0 \/ uPos + 1 \notin DOMAIN targetDegrees
       THEN pc' = "seqPlanned" /\ uPos' = 0
       ELSE pc' = "seqTopUp" /\ uPos' = uPos + 1
    /\ UNCHANGED <<N_USERS, partVars, userVars, storeVars, targetEdges, baseDegrees,
                   sumBase, sumAssigned, idx, graphVars>>

NextSeqPlan == SeqDrawBudget \/ SeqAssign \/ SeqTopUp

SpecSeqPlan == InitSeqPlan /\ [][NextSeqPlan]_vars

\* ------------------------------------------------ claims: the partitioner
Sized == pc \in {"users", "usersDone"}

\* The users that community c holds.
Members(c) == IF Has(idsByCommunity, c) THEN Range(idsByCommunity[c]) ELSE {}

\* C5: the planned community sizes sum exactly to N_USERS and none is negative;
\* once the users are generated, every id 1..N_USERS is in exactly one community
\* list, no list repeats an id, and the lists together are allUserIds.
C5_PartitionExact ==
    /\ Sized =>
        /\ Len(communities) = nCommunities
        /\ SumSeq(communities) = N_USERS
        /\ \A k \in 1..Len(communities) : communities[k] >= 0
    /\ pc = "usersDone" =>
        /\ Range(allUserIds) = 1..N_USERS
        /\ \A id \in 1..N_USERS :
              Cardinality({c \in DOMAIN idsByCommunity : id \in Members(c)}) = 1
        /\ \A c \in DOMAIN idsByCommunity :
              Len(idsByCommunity[c]) = Cardinality(Members(c))
        /\ UNION {Members(c) : c \in DOMAIN idsByCommunity} = Range(allUserIds)

\* C5 witness: a generated population of at least three users spread over two
\* communities.
C5_Witness ==
    /\ pc = "usersDone"
    /\ N_USERS >= 3
    /\ Cardinality({c \in DOMAIN idsByCommunity : Members(c) # {}}) = 2

\* Every planned size is at least 1 and every community index 0..C-1 holds a user.
AllCommunitiesNonEmpty ==
    /\ \A k \in 1..Len(communities) : communities[k] >= 1
    /\ \A c \in 0..(nCommunities - 1) : Members(c) # {}

\* C8 as claimed: for every N_USERS >= nCommunities the partition has
\* nCommunities non-empty communities.
C8_NonEmptyFromC ==
    (pc = "usersDone" /\ N_USERS >= nCommunities) => AllCommunitiesNonEmpty

\* C8 amended: for every N_USERS >= 2 * nCommunities every planned community
\* size is at least 1 and every community index 0..C-1 ends up with a user.
C8_NonEmptyFromTwoC ==
    (pc = "usersDone" /\ N_USERS >= 2 * nCommunities) => AllCommunitiesNonEmpty

\* C8 witness: two communities sized for a population of at least four.
C8_Witness ==
    /\ pc = "usersDone"
    /\ nCommunities = 2
    /\ N_USERS >= 2 * nCommunities
    /\ AllCommunitiesNonEmpty

\* ------------------------------------------------ claims: the degree planner
\* The sum of the targets over all users.
SumTargets == SumSeq([i \in 1..Len(allUserIds) |-> targetDegrees[allUserIds[i]]])

\* C3: once planning has finished, the sum of targetDegrees over all users is
\* exactly 2 * targetEdges.
C3_PlannedSum == pc = "planned" => SumTargets = 2 * targetEdges

\* C3 witness: planning finished for three users after the redistribution had
\* to move stubs, in either direction.
C3_Witness ==
    /\ pc = "planned"
    /\ N_USERS = 3
    /\ sumAssigned # 2 * targetEdges
    /\ targetEdges >= 2

\* C9: after planning every user has a defined target degree, and it is >= 1.
C9_TargetsAtLeastOne ==
    pc = "planned" =>
        \A i \in 1..Len(allUserIds) :
            /\ Has(targetDegrees, allUserIds[i])
            /\ targetDegrees[allUserIds[i]] >= 1

\* C9 witness: planning finished after trimming an overshoot, with a user left
\* at the floor of 1.
C9_Witness ==
    /\ pc = "planned"
    /\ sumAssigned > 2 * targetEdges
    /\ \E i \in 1..Len(allUserIds) : targetDegrees[allUserIds[i]] = 1

\* ------------------------------------------------ claims: the edge builders
RECURSIVE Concat(_)
\* The documents of a sequence of batches, in order.
Concat(batches) ==
    IF batches = <<>> THEN <<>> ELSE Head(batches) \o Concat(Tail(batches))

FriendPcs == {"friends", "friendsFlush", "friendsDone"}

FollowPcs == {"followUser", "follows", "followsFlush", "followsDone"}

\* The friend edges accepted so far: those handed to insertMany and those pending.
AcceptedFriends == IF pc \in FriendPcs THEN Concat(submitted) \o edgeBatch ELSE <<>>

\* The follow edges accepted so far.
AcceptedFollows == IF pc \in FollowPcs THEN Concat(submitted) \o followBatch ELSE <<>>

\* C1: every accepted friend edge has src # dst, and no two accepted friend
\* edges carry the same pair key or join the same unordered pair of users.
C1_FriendEdgesSimple ==
    LET docs == AcceptedFriends
    IN  /\ \A i \in 1..Len(docs) : docs[i].src # docs[i].dst
        /\ \A i, j \in 1..Len(docs) :
              i < j => /\ docs[i].pair # docs[j].pair
                       /\ {docs[i].src, docs[i].dst} # {docs[j].src, docs[j].dst}

\* C1 witness: three friend edges accepted, one of them drawn by the user with
\* the larger id towards the smaller.
C1_Witness ==
    /\ Len(AcceptedFriends) = 3
    /\ \E i \in 1..Len(AcceptedFriends) : AcceptedFriends[i].src > AcceptedFriends[i].dst

\* C4: totalEdges never exceeds targetEdges, and once it equals targetEdges no
\* step accepts a further friend edge.
C4_BudgetRespected ==
    /\ [](pc \in FriendPcs => totalEdges <= targetEdges)
    /\ [][(pc \in FriendPcs /\ pc' \in FriendPcs /\ totalEdges = targetEdges)
            => /\ AcceptedFriends' = AcceptedFriends
               /\ friendSet' = friendSet
               /\ totalEdges' = totalEdges]_vars

\* C4 witness: the budget is reached while the current user is still below its
\* own target.
C4_Witness ==
    /\ pc = "friends"
    /\ totalEdges = targetEdges
    /\ degree[CurrentUser] < Desired(CurrentUser)

\* C2: every accepted follow edge has src # dst, and no ordered pair (src, dst)
\* is accepted twice.
C2_FollowEdgesSimple ==
    LET docs == AcceptedFollows
    IN  /\ \A i \in 1..Len(docs) : docs[i].src # docs[i].dst
        /\ \A i, j \in 1..Len(docs) :
              i < j => <<docs[i].src, docs[i].dst>> # <<docs[j].src, docs[j].dst>>

\* C2 witness: a user has drawn more often than it has accepted, with follow
\* edges already accepted.
C2_Witness ==
    /\ pc = "follows"
    /\ tries > made
    /\ Len(AcceptedFollows) >= 3

\* A follow edge from src to dst is among the accepted ones.
FollowAccepted(src, dst) ==
    \E i \in 1..Len(AcceptedFollows) :
        AcceptedFollows[i].src = src /\ AcceptedFollows[i].dst = dst

\* C10: a draw of the follow loop is accepted exactly when the candidate is
\* another user and the same ordered pair has not been accepted before,
\* whatever the reverse pair and friendSet hold; and no step of the follow
\* builder changes friendSet.
C10_FollowDedupOrdered ==
    [][/\ (pc \in FollowPcs /\ pc' \in FollowPcs) => friendSet' = friendSet
       /\ (pc = "follows" /\ tries' = tries + 1) =>
            IF candidate' # CurrentUser /\ ~FollowAccepted(CurrentUser, candidate')
            THEN AcceptedFollows' = Append(AcceptedFollows,
                                           FollowDoc(CurrentUser, candidate'))
            ELSE AcceptedFollows' = AcceptedFollows]_vars

\* C10 witness: a -> b and b -> a are both accepted, between two users who are
\* friends.
C10_Witness ==
    \E a, b \in Range(allUserIds) :
        /\ a # b
        /\ FollowAccepted(a, b) /\ FollowAccepted(b, a)
        /\ pairKey(a, b) \in friendSet

\* ------------------------------------------------ claims: the batch sink
\* A step that handed a batch to insertMany and saw it fail.
InsertFailed == Len(submitted') = Len(submitted) + 1 /\ insertStatus' = "error"

\* C7: a failed insertMany of a users, friend, follow or interactions batch
\* never ends the run: no exception leaves a flush, the step that saw the
\* failure leaves every pending batch empty, and the script is at a regular
\* position of its loops afterwards.
C7_InsertFailureSwallowed ==
    /\ [](pc # "aborted")
    /\ [][InsertFailed =>
            /\ userBatch' = <<>> /\ edgeBatch' = <<>>
            /\ followBatch' = <<>> /\ interactionsBatch' = <<>>
            /\ pc' \in {"users", "usersDone", "friends", "friendsDone",
                        "follows", "followsDone", "interactions", "indexes"}]_vars

\* C7 witness: a friend batch failed to insert and a further friend edge has
\* been accepted into the next batch since.
C7_Witness ==
    /\ pc = "friends"
    /\ insertStatus = "error"
    /\ Len(submitted) >= 1
    /\ edgeBatch # <<>>

\* ------------------------------------------------ claims: determinism
\* Both runs have left the interaction loop.
BothRunsDone == pc = "twoRuns" /\ \A r \in {1, 2} : runs[r].i = N_INTERACTIONS

\* C6: two runs from the same seed and configuration emit the same interactions,
\* every field equal and in the same order, whatever the wall clock does.
C6_SameOutput == BothRunsDone => runs[1].emitted = runs[2].emitted

\* The two runs agree on everything their documents hold but createdAt.
C6_SameButCreatedAt ==
    BothRunsDone =>
        /\ Len(runs[1].emitted) = Len(runs[2].emitted)
        /\ \A k \in 1..Len(runs[1].emitted) :
              [runs[1].emitted[k] EXCEPT !.createdAt = 0]
                  = [runs[2].emitted[k] EXCEPT !.createdAt = 0]

\* ------------------------------------------------ claims: the interaction emitter
InteractionPcs == {"interactions", "indexes", "done"}

\* The interactions emitted so far: those handed to insertMany and those pending.
Emitted == IF pc \in InteractionPcs THEN Concat(submitted) \o interactionsBatch ELSE <<>>

\* The interaction loop is where StartInteractions leaves it.
AtInteractionsEntry ==
    pc = "interactions" /\ iInteraction = 0 /\ nowMs = 0 /\ Emitted = <<>>

\* The entry states of SpecInteractions are the ones the whole script reaches.
EntryIsInitInteractions == AtInteractionsEntry => InitInteractions

\* C11: every emitted interaction has actor # target; an iteration of the loop
\* emits one interaction or none and always uses up one of the N_INTERACTIONS
\* draws, so no more than the draws made are emitted; and whatever has been
\* emitted, any pair of distinct users with any type can be emitted next.
C11_SelfPairsSkipped ==
    /\ [](/\ \A k \in 1..Len(Emitted) : Emitted[k].actor # Emitted[k].target
          /\ pc \in InteractionPcs =>
                /\ Len(Emitted) <= iInteraction
                /\ iInteraction <= N_INTERACTIONS
          /\ (pc = "interactions" /\ iInteraction < N_INTERACTIONS) =>
                \A a, b \in Range(allUserIds) : \A t \in Range(interactionTypes) :
                    a # b => ENABLED (/\ EmitInteraction
                                      /\ Emitted' = Append(Emitted,
                                             InteractionDoc(a, b, t, nowMs))))
    /\ [][(pc = "interactions" /\ iInteraction' # iInteraction) =>
            /\ iInteraction' = iInteraction + 1
            /\ \/ Emitted' = Emitted
               \/ /\ Len(Emitted') = Len(Emitted) + 1
                  /\ SubSeq(Emitted', 1, Len(Emitted)) = Emitted]_vars

\* C11 witness: all draws are used up, one of them was a self-pair, and the
\* others emitted the same (actor, target, type) twice.
C11_Witness ==
    /\ pc = "indexes"
    /\ Len(Emitted) = N_INTERACTIONS - 1
    /\ \E j, k \in 1..Len(Emitted) :
          /\ j < k
          /\ Emitted[j].actor = Emitted[k].actor
          /\ Emitted[j].target = Emitted[k].target
          /\ Emitted[j].type = Emitted[k].type

\* ------------------------------------------------ claims: the retry cap
\* The friend edges the loop of user u has accepted: u is their src.
AcceptedBy(u) == Cardinality({k \in 1..Len(AcceptedFriends) : AcceptedFriends[k].src = u})

\* The draws made for the current user that were discarded.
RejectedDraws == tries - AcceptedBy(CurrentUser)

\* C12: the rejected neighbor draws made on behalf of a user never exceed
\* targetDegree[u] * 15.
C12_RejectsWithinCap ==
    pc = "friends" => RejectedDraws <= Desired(CurrentUser) * FRIEND_RETRY

\* What the test of line 282 does bound: the draws of a user, accepted or not,
\* by targetDegree[u] * 15 + 1.
C12_DrawsWithinCapPlusOne ==
    pc = "friends" => tries <= Desired(CurrentUser) * FRIEND_RETRY + 1

\* ------------------------------------------------ claims: planner termination
\* C13: for every population and every drawn budget the redistribution loops
\* finish and planning ends with the targets balanced.
C13_PlanningEnds == <>(pc = "planned" /\ remaining = 0)

\* The trimming loop with a surplus left and nothing it may trim: every target
\* is 1 already.
TrimStuck ==
    /\ pc = "trim"
    /\ remaining < 0
    /\ \A i \in 1..Len(allUserIds) : targetDegrees[allUserIds[i]] <= 1

\* Planning ends whenever the stubs suffice to give every user one.
C13_EndsWhenStubsSuffice == (pc = "base" /\ totalStubs >= N_USERS) ~> (pc = "planned")

\* ------------------------------------------------ claims: the sequential planner
\* The sum of the targets assigned, over the users that have one.
SumAssignedTargets == SumSeq(targetDegrees)

\* C14: after the assignment pass and the single top-up pass of the older
\* script, the targets sum to 2 * targetEdges, to within 1.
C14_SeqPlannedSum ==
    pc = "seqPlanned" =>
        /\ SumAssignedTargets <= 2 * targetEdges
        /\ 2 * targetEdges - SumAssignedTargets <= 1

\* What the single pass leaves: the stubs not handed out are the ones still in
\* remainingDegree, and stubs are left only after every user got its top-up.
C14_SeqStubsLeft ==
    pc = "seqPlanned" =>
        /\ SumAssignedTargets + remaining = 2 * targetEdges
        /\ remaining >= 0
        /\ remaining > 0 => DOMAIN targetDegrees = 1..N_USERS

\* ------------------------------------------------ claims: the degree counters
\* The accepted friend edges that have u at one end.
EdgesAt(u) ==
    Cardinality({k \in 1..Len(AcceptedFriends) :
                    AcceptedFriends[k].src = u \/ AcceptedFriends[k].dst = u})

\* C15: while the friend edges are generated, degree[u] is the number of
\* accepted friend edges with u as src or dst, the counters sum to
\* 2 * totalEdges, and a step changes a counter only by accepting a friend edge.
C15_DegreeCountersConsistent ==
    /\ [](pc \in FriendPcs =>
            /\ \A i \in 1..Len(allUserIds) :
                  degree[allUserIds[i]] = EdgesAt(allUserIds[i])
            /\ SumSeq([i \in 1..Len(allUserIds) |-> degree[allUserIds[i]]])
                  = 2 * totalEdges
            /\ Len(AcceptedFriends) = totalEdges)
    /\ [][(pc \in FriendPcs /\ degree' # degree) =>
            /\ Len(AcceptedFriends') = Len(AcceptedFriends) + 1
            /\ totalEdges' = totalEdges + 1]_vars

\* C15 witness: a user has drawn one edge itself and been drawn by another
\* user for a second one.
C15_Witness ==
    /\ pc \in FriendPcs
    /\ \E u \in Range(allUserIds) :
          /\ degree[u] = 2
          /\ \E j, k \in 1..Len(AcceptedFriends) :
                AcceptedFriends[j].src = u /\ AcceptedFriends[k].dst = u

\* ------------------------------------------------ claims: the neighbor selector
\* The first position of id in a list that holds it.
FirstAt(list, id) == CHOOSE j \in 1..Len(list) :
    list[j] = id /\ \A i \in 1..(j - 1) : list[i] # id

\* C16: pickNeighbor(u) returns a member of the sampled candidates, never u,
\* whose degree counter is maximal among them and who was sampled before every
\* other candidate of that degree; it returns null exactly when the chosen pool
\* has no member other than u.
C16_PickNeighborBest ==
    picked # NoPick =>
        LET u == picked.uId
            cands == picked.candidates
            best == picked.best
        IN  /\ best # u
            /\ Range(cands) \subseteq Range(picked.pool) \ {u}
            /\ best = Null <=> Others(picked.pool, u) = <<>>
            /\ best # Null =>
                 /\ best \in Range(cands)
                 /\ \A j \in 1..Len(cands) :
                       DegreeOf(degree, cands[j]) <= DegreeOf(degree, best)
                 /\ \A j \in 1..(FirstAt(cands, best) - 1) :
                       DegreeOf(degree, cands[j]) < DegreeOf(degree, best)

\* C16 witness: two candidates sampled out of a larger pool, the one of higher
\* id first, both with the same non-zero degree.
C16_Witness ==
    /\ picked # NoPick
    /\ Len(picked.candidates) = 2
    /\ Len(picked.pool) > 3
    /\ picked.candidates[1] > picked.candidates[2]
    /\ degree[picked.candidates[1]] = degree[picked.candidates[2]]
    /\ degree[picked.candidates[1]] > 0

\* C16 second case: null is returned.
C16_NullReturned == picked # NoPick /\ picked.best = Null

\* ------------------------------------------------ claims: batching
\* The script is generating friend edges, follow edges or interactions.
BatchedPcs == FriendPcs \cup FollowPcs \cup InteractionPcs

\* The pending list of the kind being generated.
Pending ==
    IF pc \in FriendPcs THEN edgeBatch
    ELSE IF pc \in FollowPcs THEN followBatch
    ELSE IF pc \in InteractionPcs THEN interactionsBatch
    ELSE <<>>

\* Everything generated of the kind so far, submitted batches first.
Generated == IF pc \in BatchedPcs THEN Concat(submitted) \o Pending ELSE <<>>

\* Both states of the step are in the generation of the same kind.
SameKind ==
    \/ pc \in FriendPcs /\ pc' \in FriendPcs
    \/ pc \in FollowPcs /\ pc' \in FollowPcs
    \/ pc \in InteractionPcs /\ pc' \in InteractionPcs

\* C17: for friend edges, follow edges and interactions, what has been
\* submitted followed by what is pending is exactly what has been accepted, in
\* the order of acceptance: a step adds at most one entity, at the end, and a
\* flush moves the whole pending list to the store as the next batch; no
\* submitted batch is empty or longer than BATCH_SIZE; and the pending list is
\* empty after the final flush of the kind.
C17_BatchesExact ==
    /\ [](pc \in BatchedPcs =>
            /\ \A k \in 1..Len(submitted) :
                  Len(submitted[k]) >= 1 /\ Len(submitted[k]) <= BATCH_SIZE
            /\ Len(Pending) < BATCH_SIZE
            /\ pc \in FriendPcs => Len(Generated) = totalEdges
            /\ pc \in FollowPcs => Len(Generated) = Cardinality(followSet)
            /\ pc \in {"friendsDone", "followsDone", "indexes", "done"} => Pending = <<>>)
    /\ [][SameKind =>
            /\ \/ Generated' = Generated
               \/ /\ Len(Generated') = Len(Generated) + 1
                  /\ SubSeq(Generated', 1, Len(Generated)) = Generated
            /\ \/ submitted' = submitted
               \/ /\ Pending' = <<>>
                  /\ Len(submitted') = Len(submitted) + 1
                  /\ SubSeq(submitted', 1, Len(submitted)) = submitted]_vars

\* C17 witness: the follow edges are done, a full batch was submitted during
\* the loop and the final flush submitted a shorter one.
C17_Witness ==
    /\ pc = "followsDone"
    /\ Len(submitted) >= 2
    /\ Len(submitted[1]) = BATCH_SIZE
    /\ Len(submitted[Len(submitted)]) < BATCH_SIZE

\* ------------------------------------------------ claims: the share bounds
\* A step of the sizing loop that sizes a community other than the last; i is
\* Len(communities) and the size taken is the last entry of communities'.
SizesNonFinal ==
    /\ pc = "sizing"
    /\ Len(communities') = Len(communities) + 1
    /\ Len(communities) < nCommunities - 1

\* The size the step has taken.
Taken == communities'[Len(communities')]

\* A step of the sizing loop that sizes the last community.
SizesFinal ==
    /\ pc = "sizing"
    /\ Len(communities') = Len(communities) + 1
    /\ Len(communities) = nCommunities - 1

\* C18 as claimed: a non-final community i takes at least remaining/(2*(C-i)),
\* rounded down, and at most remaining/(C-i) of what is unassigned when it is
\* sized; the last community takes the whole remainder.
C18_ShareOfRemaining ==
    [][/\ SizesNonFinal =>
            /\ Taken >= rem \div (2 * (nCommunities - Len(communities)))
            /\ Taken <= rem \div (nCommunities - Len(communities))
       /\ SizesFinal => Taken = rem]_vars

\* C18 amended: a non-final community i takes at least floor(N/(2*C)), a bound
\* fixed by the whole population and not by what remains, and at most
\* floor(remaining/(C-i)); what is taken leaves the remainder; the last
\* community takes the whole remainder.
C18_ShareOfPopulation ==
    [][/\ SizesNonFinal =>
            /\ Taken >= N_USERS \div (2 * nCommunities)
            /\ Taken <= rem \div (nCommunities - Len(communities))
            /\ rem' = rem - Taken
       /\ SizesFinal => Taken = rem]_vars

\* C18 witness: three communities sized, the second one with less than half an
\* even split of what remained for it.
C18_Witness ==
    /\ pc = "users"
    /\ nCommunities = 3
    /\ Len(communities) = 3
    /\ 2 * 2 * communities[2] < (N_USERS - communities[1]) - 3

\* ------------------------------------------------ claims: the follow caps
\* The number of accepted follow edges that leave user u.
FollowsFrom(u) ==
    Cardinality({i \in 1..Len(AcceptedFollows) : AcceptedFollows[i].src = u})

\* The counters of the follow loop are within their caps.
FollowCapsHold ==
    pc = "follows" =>
        /\ nF \in FOLLOW_MIN..FOLLOW_MAX
        /\ tries <= nF * FOLLOW_RETRY
        /\ made <= nF
        /\ FollowsFrom(CurrentUser) = made
        /\ \A k \in 1..Len(allUserIds) :
              /\ FollowsFrom(allUserIds[k]) <= FOLLOW_MAX
              /\ k > uPos => FollowsFrom(allUserIds[k]) = 0

\* The loop of a user goes on exactly while neither cap is reached.
FollowStopsAtCap ==
    pc = "follows" =>
        ((ENABLED FollowAttempt) <=> (made < nF /\ tries < nF * FOLLOW_RETRY))

\* C19: for the user u whose follows are being made, with target nF in
\* [FOLLOW_MIN, FOLLOW_MAX], at most nF*8 candidates have been drawn and at most
\* nF follow edges with src = u are accepted; every draw counts as one; the
\* loop for u stops as soon as either cap is reached; and follow generation,
\* once begun, ends.
C19_FollowCaps ==
    /\ [](FollowCapsHold /\ FollowStopsAtCap)
    /\ [][pc = "follows" /\ pc' = "follows" /\ uPos' = uPos => tries' = tries + 1]_vars
    /\ (pc = "followUser" ~> pc = "followsDone")

\* C19 witness: a user with a target of two has made one follow edge and has
\* used up all the draws.
C19_Witness ==
    /\ pc = "follows"
    /\ Len(allUserIds) >= 2
    /\ nF = 2
    /\ made = 1
    /\ tries = nF * FOLLOW_RETRY
    /\ FollowsFrom(CurrentUser) = 1

====
